---------------------------- MODULE Spec2Model ----------------------------
(***************************************************************************)
(* A model of mining_calc.py: the TTL cache decorator, the retry policy,   *)
(* the three data access operations built from them, the route evaluator   *)
(* and the optimizer loop of auto_calc_mode.                               *)
(*                                                                         *)
(* Numbers.  Python floats are modelled as exact rationals [n, d] in       *)
(* lowest terms with d > 0.  The yield per hour is too large for a         *)
(* fraction over machine integers, so it is kept as a mixed number         *)
(* [q, n, d] = q + n/d with 0 <= n < d.  Coordinates are drawn from a set  *)
(* of points whose pairwise distances are whole numbers, so that           *)
(* math.sqrt is exact on every input the model feeds it.                   *)
(*                                                                         *)
(* Python values.  A dict is a record, and `"k" in d` is                   *)
(* "k" \in DOMAIN d.  A call that may raise returns a tagged record:       *)
(* [kind |-> "ok", value |-> v] or [kind |-> "raise", exc |-> e].          *)
(***************************************************************************)
EXTENDS Integers, Sequences, FiniteSets, TLC

(***************************************************************************)
(* Rational arithmetic.                                                    *)
(***************************************************************************)
Abs(x) == IF x < 0 THEN -x ELSE x

RECURSIVE GCD(_, _)
GCD(a, b) == IF b = 0 THEN a ELSE GCD(b, a % b)

RNorm(n, d) ==
    LET s == IF d < 0 THEN -1 ELSE 1
        g == GCD(Abs(n), Abs(d))
    IN  [n |-> (s * n) \div g, d |-> (s * d) \div g]

RInt(k) == [n |-> k, d |-> 1]

RMul(a, b) ==
    LET g1 == GCD(Abs(a.n), b.d)
        g2 == GCD(Abs(b.n), a.d)
    IN  IF a.n = 0 \/ b.n = 0 THEN RInt(0)
        ELSE [n |-> (a.n \div g1) * (b.n \div g2),
              d |-> (a.d \div g2) * (b.d \div g1)]

RAdd(a, b) ==
    LET g == GCD(a.d, b.d)
    IN  RNorm(a.n * (b.d \div g) + b.n * (a.d \div g), (a.d \div g) * b.d)

RNeg(a) == [n |-> -a.n, d |-> a.d]

RSub(a, b) == RAdd(a, RNeg(b))

\* a / b for b # 0
RDiv(a, b) ==
    RMul(a, IF b.n < 0 THEN [n |-> -b.d, d |-> -b.n] ELSE [n |-> b.d, d |-> b.n])

RLt(a, b) == a.n * b.d < b.n * a.d

RLe(a, b) == a.n * b.d <= b.n * a.d

RMin(a, b) == IF RLe(a, b) THEN a ELSE b

\* math.ceil of a rational
RCeil(a) == -((-a.n) \div a.d)

\* Python's round(x, 0) of a rational: to the nearest integer, ties to even.
RRound(a) ==
    LET f == a.n \div a.d
        r == a.n % a.d
    IN  IF 2 * r < a.d THEN f
        ELSE IF 2 * r > a.d THEN f + 1
        ELSE IF f % 2 = 0 THEN f ELSE f + 1

\* Python's round(x, 2), as a rational of hundredths
RRound2(a) == RNorm(RRound(RMul(a, RInt(100))), 100)

(***************************************************************************)
(* Mixed numbers q + n/d, 0 <= n < d, for the quotient profit / cycle.     *)
(***************************************************************************)
BigZero == [q |-> 0, n |-> 0, d |-> 1]

\* a / b for b > 0, as a mixed number
BigDiv(a, b) ==
    LET \* (a.n / a.d) * (b.d / b.n) with the common factors cancelled first
        g1 == GCD(Abs(a.n), b.n)
        g2 == GCD(b.d, a.d)
        pn == a.n \div g1
        cd == b.d \div g2
        dd == (a.d \div g2) * (b.n \div g1)
        hi == pn \div dd
        lo == pn % dd
    IN  IF a.n = 0 THEN BigZero
        ELSE [q |-> hi * cd + (lo * cd) \div dd, n |-> (lo * cd) % dd, d |-> dd]

BigLt(x, y) == x.q < y.q \/ (x.q = y.q /\ x.n * y.d < y.n * x.d)

\* Python's round() of a mixed number: nearest integer, ties to even
BigRound(x) ==
    IF 2 * x.n < x.d THEN x.q
    ELSE IF 2 * x.n > x.d THEN x.q + 1
    ELSE IF x.q % 2 = 0 THEN x.q ELSE x.q + 1

(***************************************************************************)
(* Results of calls that may raise.                                        *)
(***************************************************************************)
Ok(v) == [kind |-> "ok", value |-> v]

Raise(e) == [kind |-> "raise", exc |-> e]

\* dict.get(key, default)
Get(d, k, default) == IF k \in DOMAIN d THEN d[k] ELSE default

(***************************************************************************)
(* Configuration and data classes.                                         *)
(***************************************************************************)
GameConfig ==
    [limpet_cost                 |-> RInt(101),
     limpets_per_ton             |-> RInt(1),
     laser_mining_rate_per_laser |-> RNorm(5, 2),
     limpet_collection_rate      |-> RNorm(14, 5),
     prospector_bonus            |-> RNorm(7, 2),
     mining_downtime_factor      |-> RNorm(17, 20),
     limpet_loss_rate            |-> RNorm(1, 10),
     time_multiplier_mapped      |-> RInt(2),
     time_multiplier_unmapped    |-> RNorm(7, 2),
     time_multiplier_beginner    |-> RInt(5)]

SHIP ==
    [name                  |-> "MU-18A Asp Miner",
     cargo_tons            |-> 96,
     jump_range_ly         |-> RNorm(2687, 100),
     jump_time_min         |-> RNorm(3, 2),
     collector_controllers |-> 2,
     num_lasers            |-> 2]

(***************************************************************************)
(* Geometry.                                                               *)
(***************************************************************************)
\* math.sqrt, exact: defined on the perfect squares only
Sqrt(s) == CHOOSE r \in 0..s : r * r = s

Axes == {"x", "y", "z"}

distance(a, b) ==
    Sqrt((a.x - b.x) * (a.x - b.x) + (a.y - b.y) * (a.y - b.y)
         + (a.z - b.z) * (a.z - b.z))

DockingOverhead == RInt(5)

\* a slip: the jumps rounded to the nearest instead of up
travel_time_rounded(total_ly, ship) ==
    LET num_jumps == IF total_ly.n > 0
                     THEN RRound(RDiv(total_ly, ship.jump_range_ly)) ELSE 0
        jump_time == RMul(RInt(num_jumps), ship.jump_time_min)
    IN  RAdd(jump_time, DockingOverhead)

\* lines 190-197
travel_time_minutes(total_ly, ship) ==
    LET num_jumps == IF total_ly.n > 0
                     THEN RCeil(RDiv(total_ly, ship.jump_range_ly)) ELSE 0
        jump_time == RMul(RInt(num_jumps), ship.jump_time_min)
    IN  RAdd(jump_time, DockingOverhead)

(***************************************************************************)
(* Route evaluator.                                                        *)
(***************************************************************************)
MiningModes == {"mapped", "unmapped", "beginner"}

\* a slip: the mode not looked at
MultiplierUnmappedAlways(cfg, mining_mode) == cfg.time_multiplier_unmapped

\* lines 235-240
Multiplier(cfg, mining_mode) ==
    IF mining_mode = "mapped" THEN cfg.time_multiplier_mapped
    ELSE IF mining_mode = "beginner" THEN cfg.time_multiplier_beginner
    ELSE cfg.time_multiplier_unmapped

\* a slip: the factor not capped at 1
BulkTaxUncapped(demand, tons_full) ==
    IF demand = 0 THEN RInt(1)
    ELSE RDiv(RMul(RInt(demand), RNorm(1, 4)), RInt(tons_full))

\* lines 250-251, the bulk sales tax
BulkTax(demand, tons_full) ==
    IF demand = 0 THEN RInt(1)
    ELSE RMin(RInt(1), RDiv(RMul(RInt(demand), RNorm(1, 4)), RInt(tons_full)))

\* line 263
Freshness(data_age_min) ==
    IF RLt(data_age_min, RInt(60)) THEN "FRESH"
    ELSE IF RLt(data_age_min, RInt(360)) THEN "STALE" ELSE "OLD"

EmptyResult == [empty |-> TRUE]

evaluate_route(ref_coords, mine, buyer, cfg, ship, mining_mode) ==
    IF "coords" \notin DOMAIN mine \/ "coords" \notin DOMAIN buyer
    THEN Ok(EmptyResult)
    ELSE IF ~(Axes \subseteq DOMAIN ref_coords /\ Axes \subseteq DOMAIN mine.coords
              /\ Axes \subseteq DOMAIN buyer.coords)
    THEN Raise("KeyError")
    ELSE
    LET dist_to_mine == distance(ref_coords, mine.coords)
        dist_to_sell == distance(mine.coords, buyer.coords)
        total_ly     == RInt(dist_to_mine + dist_to_sell)
        travel_min   == travel_time_minutes(total_ly, ship)
        mining_rate  == RMul(RMul(cfg.laser_mining_rate_per_laser, RInt(ship.num_lasers)),
                             cfg.mining_downtime_factor)
        collection_rate == RMul(cfg.limpet_collection_rate,
                                RInt(ship.collector_controllers))
        effective_rate  == RMin(mining_rate, collection_rate)
        effective_rate_with_prospector == RMul(effective_rate, cfg.prospector_bonus)
    IN  IF effective_rate_with_prospector.n = 0 THEN Raise("ZeroDivisionError")
        ELSE
        LET extraction_time_full  == RDiv(RInt(ship.cargo_tons),
                                          effective_rate_with_prospector)
            multiplier            == Multiplier(cfg, mining_mode)
            realistic_mining_time == RMul(extraction_time_full, multiplier)
            tons_full             == ship.cargo_tons
            limpets_needed_full   == RMul(RMul(RInt(tons_full), cfg.limpets_per_ton),
                                          RAdd(RInt(1), cfg.limpet_loss_rate))
            limpet_cost_full      == RMul(limpets_needed_full, cfg.limpet_cost)
            demand                == Get(buyer, "demand", 0)
            bulk_tax_full         == BulkTax(demand, tons_full)
        IN  IF "price" \notin DOMAIN buyer THEN Raise("KeyError")
            ELSE
            LET revenue_full    == RMul(RMul(RInt(tons_full), RInt(buyer.price)),
                                        bulk_tax_full)
                profit_full     == RSub(revenue_full, limpet_cost_full)
                cycle_time_full == RDiv(RAdd(realistic_mining_time, travel_min),
                                        RInt(60))
                crph_full       == IF cycle_time_full.n > 0
                                   THEN BigDiv(profit_full, cycle_time_full)
                                   ELSE BigZero
                data_age_min    == Get(buyer, "age_minutes", RInt(999))
            IN  IF "name" \notin DOMAIN mine \/ "system" \notin DOMAIN buyer
                   \/ "station" \notin DOMAIN buyer
                THEN Raise("KeyError")
                ELSE IF realistic_mining_time.n = 0 THEN Raise("ZeroDivisionError")
                ELSE Ok([mine_system     |-> mine.name,
                         sell_system     |-> buyer.system,
                         sell_station    |-> buyer.station,
                         commodity       |-> "",
                         price           |-> buyer.price,
                         demand          |-> demand,
                         profit_full     |-> RRound(profit_full),
                         crph_full       |-> BigRound(crph_full),
                         bulk_tax_full   |-> RRound2(bulk_tax_full),
                         freshness       |-> Freshness(data_age_min),
                         mining_mode     |-> mining_mode,
                         time_multiplier |-> multiplier,
                         \* not in the dict: the values before rounding and the
                         \* inputs, kept for the statements about them
                         raw_tax         |-> bulk_tax_full,
                         raw_profit      |-> profit_full,
                         raw_crph        |-> crph_full,
                         raw_cycle       |-> cycle_time_full,
                         raw_realistic   |-> realistic_mining_time,
                         raw_extraction  |-> extraction_time_full,
                         raw_mine        |-> mine,
                         raw_buyer       |-> buyer])

(***************************************************************************)
(* Bounds of the model.                                                    *)
(***************************************************************************)
\* largest max_retries handed to retry_with_backoff
MaxRetries == 4

\* largest cargo_tons of the small ships handed to evaluate_route
MaxCargo == 3

\* largest of the small demands handed to evaluate_route
MaxDemand == 13

\* largest base_delay (seconds) handed to retry_with_backoff
MaxBaseDelay == 2

\* largest ttl_seconds handed to cache_with_ttl
MaxTtl == 3

\* longest run (seconds) of a decorated function's body
MaxFetchTime == 2

\* the clock stops here
MaxClock == 5

\* most runs of a decorated function's body in one behaviour
MaxFetches == 3

(***************************************************************************)
(* State.  One thread of control runs one top-level operation at a time    *)
(* (spec section 5), so an operation is one step.                          *)
(***************************************************************************)
VARIABLES
    pc,          \* where the operation under study stands
    clock,       \* time.time(), in seconds
    inp,         \* the arguments of the operation and the behaviour of what it calls
    out,         \* what the last operation returned or raised, and what it did
    cache,       \* the cache dict of each decorated function
    hist,        \* per call form, the last fetch that returned (not in the code)
    nfetch,      \* how often a decorated function's body has run (not in the code)
    idx,         \* auto_calc_mode: position of the loop in the commodity list
    ref_coords,  \* auto_calc_mode: coordinates of the pilot's system
    mining_mode, \* auto_calc_mode: the selected mode
    all_routes,  \* auto_calc_mode: the routes collected so far
    top,         \* auto_calc_mode: the ranked output
    trace        \* per commodity processed, what happened to it (not in the code)

vars == <<pc, clock, inp, out, cache, hist, nfetch,
          idx, ref_coords, mining_mode, all_routes, top, trace>>

cacheVars == <<cache, hist, nfetch>>

autoVars == <<idx, ref_coords, mining_mode, all_routes, top, trace>>

NoValue == [none |-> TRUE]

(***************************************************************************)
(* TTL cache, lines 80-96.                                                 *)
(*                                                                         *)
(* A call is [args, kwargs]: the positional values in order and the        *)
(* keyword pairs in the order the caller wrote them.  A value carries its  *)
(* type.  str() is modelled by what it prints: a string is the sequence of *)
(* its pieces.                                                             *)
(***************************************************************************)
PyInt(k) == [t |-> "int", v |-> k]

PyStr(x) == [t |-> "str", v |-> x]

\* repr() of a value
Repr(v) ==
    IF v.t = "int" THEN <<ToString(v.v)>> ELSE <<"'", v.v, "'">>

RECURSIVE JoinReprs(_)
JoinReprs(args) ==
    IF args = <<>> THEN <<>>
    ELSE Repr(Head(args))
         \o (IF Tail(args) = <<>> THEN <<>> ELSE <<", ">> \o JoinReprs(Tail(args)))

\* str() of a tuple
StrTuple(args) ==
    <<"(">> \o JoinReprs(args) \o (IF Len(args) = 1 THEN <<",">> ELSE <<>>) \o <<")">>

RECURSIVE JoinItems(_)
JoinItems(kwargs) ==
    IF kwargs = <<>> THEN <<>>
    ELSE <<"'", Head(kwargs)[1], "'", ": ">> \o Repr(Head(kwargs)[2])
         \o (IF Tail(kwargs) = <<>> THEN <<>> ELSE <<", ">> \o JoinItems(Tail(kwargs)))

\* str() of a dict, which keeps insertion order
StrDict(kwargs) == <<"{">> \o JoinItems(kwargs) \o <<"}">>

\* line 86
Key(call) == StrTuple(call.args) \o StrDict(call.kwargs)

EmptyDict == <<>>

\* cache[key] = entry
Store(c, key, entry) ==
    [k \in (DOMAIN c) \cup {key} |-> IF k = key THEN entry ELSE c[k]]

\* a slip: an entry still served when exactly ttl_seconds old
FreshInclusive(c, key, now, ttl_seconds) ==
    key \in DOMAIN c /\ now - c[key].timestamp <= ttl_seconds

\* lines 88-90
Fresh(c, key, now, ttl_seconds) ==
    key \in DOMAIN c /\ now - c[key].timestamp < ttl_seconds

\* a slip: the stale value served when the fetch fails
wrapperServesStale(c, now, ttl_seconds, call, run) ==
    LET key == Key(call)
    IN  IF Fresh(c, key, now, ttl_seconds) \/ (key \in DOMAIN c /\ run.result.kind = "raise")
        THEN [result |-> Ok(c[key].result), cache |-> c,
              invoked |-> ~Fresh(c, key, now, ttl_seconds), elapsed |-> 0]
        ELSE IF run.result.kind = "raise"
        THEN [result |-> run.result, cache |-> c,
              invoked |-> TRUE, elapsed |-> run.elapsed]
        ELSE [result |-> run.result,
              cache |-> Store(c, key, [result |-> run.result.value, timestamp |-> now]),
              invoked |-> TRUE, elapsed |-> run.elapsed]

\* lines 85-94.  c is the decorator's dict, now the clock at entry, run what
\* the body does if it is run: [result, elapsed].
wrapper(c, now, ttl_seconds, call, run) ==
    LET key == Key(call)
    IN  IF Fresh(c, key, now, ttl_seconds)
        THEN [result |-> Ok(c[key].result), cache |-> c,
              invoked |-> FALSE, elapsed |-> 0]
        ELSE IF run.result.kind = "raise"
        THEN [result |-> run.result, cache |-> c,
              invoked |-> TRUE, elapsed |-> run.elapsed]
        ELSE [result |-> run.result,
              cache |-> Store(c, key, [result |-> run.result.value, timestamp |-> now]),
              invoked |-> TRUE, elapsed |-> run.elapsed]

Decorated == {"func", "get_coords", "get_buyers", "get_hotspots"}

\* the state at process start: line 83
CacheIdle ==
    /\ cache = [f \in Decorated |-> EmptyDict]
    /\ hist = <<>>
    /\ nfetch = 0

\* auto_calc_mode has not been entered
AutoIdle ==
    /\ idx = 1
    /\ ref_coords = NoValue
    /\ mining_mode = ""
    /\ all_routes = <<>>
    /\ top = <<>>
    /\ trace = <<>>

(***************************************************************************)
(* Retry policy, lines 98-113.                                             *)
(*                                                                         *)
(* func is the sequence of outcomes of its successive invocations.  The    *)
(* result carries the log of what the loop did: a "call" event per         *)
(* invocation of func and a "sleep" event per time.sleep.                  *)
(***************************************************************************)
\* a slip: the final attempt taken to be the one after the last
FinalAttemptOffByOne(attempt, max_retries) == attempt = max_retries

\* line 108
FinalAttempt(attempt, max_retries) == attempt = max_retries - 1

\* a slip: the attempt index counted from 1
BackoffDelayFromOne(base_delay, attempt) == base_delay * (2 ^ (attempt + 1))

\* line 110
BackoffDelay(base_delay, attempt) == base_delay * (2 ^ attempt)

RECURSIVE RetryLoop(_, _, _, _, _)
RetryLoop(func, max_retries, base_delay, attempt, log) ==
    IF attempt >= max_retries
    THEN [result |-> Raise("RuntimeError"), log |-> log]
    ELSE LET r    == func[attempt + 1]
             log1 == Append(log, [ev |-> "call", attempt |-> attempt])
         IN  IF r.kind = "ok" THEN [result |-> r, log |-> log1]
             ELSE IF FinalAttempt(attempt, max_retries)
             THEN [result |-> r, log |-> log1]
             ELSE LET delay == BackoffDelay(base_delay, attempt)
                  IN  RetryLoop(func, max_retries, base_delay, attempt + 1,
                                Append(log1, [ev |-> "sleep", delay |-> delay]))

retry_with_backoff(func, max_retries, base_delay) ==
    RetryLoop(func, max_retries, base_delay, 0, <<>>)

\* what a log amounts to
RECURSIVE Slept(_)
Slept(log) ==
    IF log = <<>> THEN 0
    ELSE (IF Head(log).ev = "sleep" THEN Head(log).delay ELSE 0) + Slept(Tail(log))

Calls(log) == Cardinality({i \in 1..Len(log) : log[i].ev = "call"})

(***************************************************************************)
(* Data access, lines 123-184.                                             *)
(*                                                                         *)
(* What the upstream does with one request is either Raise(e), when        *)
(* requests.get raises, or Ok(r) with r a response: [parses |-> FALSE]     *)
(* when the body is not JSON, [parses |-> TRUE, json |-> j] otherwise.     *)
(* A JSON value is None, a list of dicts or a dict.  requests.get is taken *)
(* to answer at once: only time.sleep moves the clock.                     *)
(***************************************************************************)
PyNone == [t |-> "none"]

JList(items) == [t |-> "list", items |-> items]

JDict(d) == [t |-> "dict", d |-> d]

\* bool(data)
Truthy(data) ==
    IF data.t = "list" THEN data.items # <<>>
    ELSE IF data.t = "dict" THEN DOMAIN data.d # {}
    ELSE FALSE

\* lines 123-128
safe_json(r) == IF r.parses THEN r.json ELSE PyNone

\* a slip: a payload that is empty or missing raised inside the closure that
\* retry_with_backoff runs
fetchChecked(u) ==
    IF u.kind = "raise" THEN u
    ELSE IF Truthy(safe_json(u.value)) THEN Ok(safe_json(u.value))
    ELSE Raise("ValueError")

\* lines 144-146, 161-163, 176-178: the closure fetch, run on what the
\* upstream does with its request
fetch(u) == IF u.kind = "raise" THEN u ELSE Ok(safe_json(u.value))

\* max_retries=3 at lines 148, 165, 180
FetchRetries == 3

\* base_delay: float = 1.0 at line 101
DefaultBaseDelay == 1

\* lines 148, 165, 180: ups is what the upstream does with each request in turn
FetchWithRetry(ups) ==
    retry_with_backoff([i \in 1..Len(ups) |-> fetch(ups[i])],
                       FetchRetries, DefaultBaseDelay)

\* lines 142-154, the body of get_coords
get_coords_body(ups) ==
    LET run  == FetchWithRetry(ups)
        data == run.result.value
    IN  IF run.result.kind = "raise" THEN run
        ELSE IF data.t = "list" /\ Len(data.items) > 0
                /\ "coords" \in DOMAIN data.items[1]
        THEN [result |-> Ok(data.items[1].coords), log |-> run.log]
        ELSE IF data.t = "dict" /\ "coords" \in DOMAIN data.d
        THEN [result |-> Ok(data.d.coords), log |-> run.log]
        ELSE [result |-> Raise("ValueError"), log |-> run.log]

\* lines 159-169, the body of get_buyers
get_buyers_body(ups) ==
    LET run  == FetchWithRetry(ups)
        data == run.result.value
    IN  IF run.result.kind = "raise" THEN run
        ELSE IF Truthy(data) THEN [result |-> Ok(data), log |-> run.log]
        ELSE [result |-> Raise("ValueError"), log |-> run.log]

\* lines 174-184, the body of get_hotspots
get_hotspots_body(ups) ==
    LET run  == FetchWithRetry(ups)
        data == run.result.value
    IN  IF run.result.kind = "raise" THEN run
        ELSE IF Truthy(data) THEN [result |-> Ok(data), log |-> run.log]
        ELSE [result |-> Ok(JList(<<>>)), log |-> run.log]

\* ttl_seconds at lines 139, 156, 171
CoordsTtl == 600

BuyersTtl == 120

HotspotsTtl == 300

Ttl(f) ==
    IF f = "get_coords" THEN CoordsTtl
    ELSE IF f = "get_buyers" THEN BuyersTtl ELSE HotspotsTtl

Body(f, ups) ==
    IF f = "get_coords" THEN get_coords_body(ups)
    ELSE IF f = "get_buyers" THEN get_buyers_body(ups) ELSE get_hotspots_body(ups)

\* f(arg) for a decorated f, lines 139-184: the wrapper around the body.
\* caches is the dict of every decorated function.
Access(f, caches, now, arg, ups) ==
    LET body == Body(f, ups)
        w    == wrapper(caches[f], now, Ttl(f),
                        [args |-> <<arg>>, kwargs |-> <<>>],
                        [result |-> body.result, elapsed |-> Slept(body.log)])
    IN  [result  |-> w.result,
         caches  |-> [caches EXCEPT ![f] = w.cache],
         invoked |-> w.invoked,
         elapsed |-> w.elapsed,
         log     |-> IF w.invoked THEN body.log ELSE <<>>]

(***************************************************************************)
(* The retry policy on its own: any operation, any max_retries and         *)
(* base_delay within the bounds.                                           *)
(***************************************************************************)
FuncOutcomes == {Ok("v1"), Ok("v2"), Raise("Timeout"), Raise("ConnectionError")}

RECURSIVE SeqsOf(_, _)
SeqsOf(S, n) ==
    IF n = 0 THEN {<<>>}
    ELSE {Append(q, x) : q \in SeqsOf(S, n - 1), x \in S}

InitRetry ==
    /\ pc = "ready"
    /\ clock = 0
    /\ inp \in [max_retries : 0..MaxRetries,
                base_delay  : 1..MaxBaseDelay,
                func        : SeqsOf(FuncOutcomes, MaxRetries)]
    /\ out = NoValue
    /\ CacheIdle
    /\ AutoIdle

RetryRun ==
    /\ pc = "ready"
    /\ LET run == retry_with_backoff(inp.func, inp.max_retries, inp.base_delay)
       IN  /\ out' = run
           /\ clock' = clock + Slept(run.log)
    /\ pc' = "done"
    /\ UNCHANGED <<inp, cacheVars, autoVars>>

NextRetry == RetryRun

SpecRetry == InitRetry /\ [][NextRetry]_vars

(***************************************************************************)
(* Statements about the retry policy.                                      *)
(***************************************************************************)
\* the invocations of func, among the first m, that succeed
Successes(func, m) == {k \in 1..m : func[k].kind = "ok"}

Least(S) == CHOOSE k \in S : \A j \in S : k <= j

\* C2: for max_retries >= 1, an operation that fails every time is invoked
\* exactly max_retries times and the failure of its last invocation is what
\* the caller gets; an operation that first succeeds on invocation
\* k <= max_retries is invoked exactly k times and its result is returned.
C2_RetryCounts ==
    (pc = "done" /\ inp.max_retries >= 1) =>
        LET m   == inp.max_retries
            oks == Successes(inp.func, m)
            n   == IF oks = {} THEN m ELSE Least(oks)
        IN  /\ Calls(out.log) = n
            /\ out.result = inp.func[n]
            /\ out.result.kind = (IF oks = {} THEN "raise" ELSE "ok")

\* C2 witness: three attempts fail with different failures, the last one's
\* is raised
C2_Witness ==
    /\ pc = "done"
    /\ inp.max_retries = 3
    /\ Successes(inp.func, 3) = {}
    /\ inp.func[1] # inp.func[3]
    /\ out.result = inp.func[3]
    /\ Calls(out.log) = 3

\* C3: after the failed attempt with index i (from 0), and only when attempts
\* remain, the loop sleeps exactly base_delay * 2^i and then makes the next
\* attempt; nothing follows a success or the final failed attempt; an
\* operation that always fails is waited for base_delay * (2^(max_retries-1) - 1)
\* in total, which is the time that passes.
C3_BackoffWaits ==
    (pc = "done" /\ inp.max_retries >= 1) =>
        LET m   == inp.max_retries
            log == out.log
        IN  /\ \A p \in 1..Len(log) :
                 /\ log[p].ev = "call" =>
                      LET i == log[p].attempt
                      IN  IF inp.func[i + 1].kind = "raise" /\ i < m - 1
                          THEN /\ p + 2 <= Len(log)
                               /\ log[p + 1] = [ev |-> "sleep",
                                                delay |-> inp.base_delay * (2 ^ i)]
                               /\ log[p + 2] = [ev |-> "call", attempt |-> i + 1]
                          ELSE p = Len(log)
                 /\ log[p].ev = "sleep" => p > 1 /\ log[p - 1].ev = "call"
            /\ Len(log) >= 1 /\ log[1] = [ev |-> "call", attempt |-> 0]
            /\ Successes(inp.func, m) = {} =>
                   Slept(log) = inp.base_delay * ((2 ^ (m - 1)) - 1)
            /\ clock = Slept(log)

\* C3 witness: four attempts fail, with base_delay 2 the waits are 2, 4, 8
C3_Witness ==
    /\ pc = "done"
    /\ inp.max_retries = 4
    /\ inp.base_delay = 2
    /\ Successes(inp.func, 4) = {}
    /\ Slept(out.log) = 14
    /\ clock = 14

(***************************************************************************)
(* The cache decorator on its own: a function of two parameters decorated  *)
(* with any ttl_seconds within the bounds, called in three ways.  Each run *)
(* of the body returns a value never returned before, or raises.           *)
(***************************************************************************)
CallForms ==
    << [args |-> <<>>, kwargs |-> << <<"x", PyInt(1)>>, <<"y", PyInt(2)>> >>],
       [args |-> <<>>, kwargs |-> << <<"y", PyInt(2)>>, <<"x", PyInt(1)>> >>],
       [args |-> <<PyInt(2), PyInt(1)>>, kwargs |-> <<>>] >>

Forms == 1..Len(CallForms)

InitCache ==
    /\ pc = "idle"
    /\ clock = 0
    /\ inp \in [ttl_seconds : 1..MaxTtl]
    /\ out = NoValue
    /\ cache = [f \in Decorated |-> EmptyDict]
    /\ hist = [i \in Forms |-> NoValue]
    /\ nfetch = 0
    /\ AutoIdle

CacheCall ==
    \E i \in Forms, fails \in BOOLEAN, dur \in {0, MaxFetchTime} :
        LET run == [result  |-> IF fails THEN Raise("FetchError") ELSE Ok(nfetch + 1),
                    elapsed |-> dur]
            w   == wrapper(cache.func, clock, inp.ttl_seconds, CallForms[i], run)
        IN  /\ w.invoked => nfetch < MaxFetches
            /\ clock + w.elapsed <= MaxClock
            /\ cache' = [cache EXCEPT !.func = w.cache]
            /\ clock' = clock + w.elapsed
            /\ nfetch' = IF w.invoked THEN nfetch + 1 ELSE nfetch
            /\ hist' = IF w.invoked /\ w.result.kind = "ok"
                       THEN [hist EXCEPT ![i] =
                                [value    |-> w.result.value,
                                 at       |-> clock,
                                 storedAt |-> clock',
                                 nth      |-> IF hist[i] = NoValue THEN 1
                                              ELSE hist[i].nth + 1]]
                       ELSE hist
            /\ out' = [form |-> i, invoked |-> w.invoked, result |-> w.result]
            /\ UNCHANGED <<pc, inp, autoVars>>

\* time passes between calls
Tick ==
    /\ clock < MaxClock
    /\ clock' = clock + 1
    /\ UNCHANGED <<pc, inp, out, cacheVars, autoVars>>

NextCache == CacheCall \/ Tick

SpecCache == InitCache /\ [][NextCache]_vars

\* C1: when a call found nothing fresh, ran the body and got a value, a call
\* with the same arguments made less than ttl_seconds after it runs nothing
\* and returns that value; one made ttl_seconds or more after it runs the
\* body again, and the value it gets is what the cache then holds.
C1_CacheWindow ==
    [][out' # out =>
         LET i == out'.form
             h == hist[i]
         IN  h # NoValue =>
               IF clock - h.at < inp.ttl_seconds
               THEN /\ ~out'.invoked
                    /\ nfetch' = nfetch
                    /\ out'.result = Ok(h.value)
               ELSE /\ out'.invoked
                    /\ nfetch' = nfetch + 1
                    /\ out'.result.kind = "ok" =>
                         /\ out'.result.value # h.value
                         /\ Key(CallForms[i]) \in DOMAIN cache'.func
                         /\ cache'.func[Key(CallForms[i])].result = out'.result.value
    ]_vars

\* C1 witness: a call served from the cache, after the same arguments were
\* fetched, expired and were fetched again
C1_Witness ==
    /\ out # NoValue
    /\ ~out.invoked
    /\ hist[out.form] # NoValue
    /\ out.result = Ok(hist[out.form].value)
    /\ hist[out.form].nth = 2

(***************************************************************************)
(* Upstream data.  Points with whole distances between them (30, 40, 50).  *)
(***************************************************************************)
Point(x, y, z) == [x |-> x, y |-> y, z |-> z]

Sol == Point(0, 0, 0)

PointA == Point(30, 0, 0)

PointB == Point(0, 40, 0)

SiteA == [name |-> "Site A", coords |-> PointA]

BuyerB == [system |-> "Sys B", station |-> "Port B", coords |-> PointB,
           price |-> 250000, demand |-> 200, ago_sec |-> 1800, pad |-> "L"]

\* JSON bodies the providers may answer with
Bodies(f) ==
    IF f = "get_coords"
    THEN {JList(<<>>), JDict([name |-> "Nowhere"]),
          JDict([name |-> "Sol", coords |-> Sol]),
          JList(<<[name |-> "Sol", coords |-> Sol]>>)}
    ELSE IF f = "get_buyers"
    THEN {JList(<<>>), JDict(<<>>), JList(<<BuyerB>>)}
    ELSE {JList(<<>>), JList(<<SiteA>>)}

\* what the upstream may do with one request
Upstream(f) ==
    {Raise("Timeout"), Ok([parses |-> FALSE])}
    \cup {Ok([parses |-> TRUE, json |-> j]) : j \in Bodies(f)}

(***************************************************************************)
(* The data access operations on their own, called in any order.           *)
(***************************************************************************)
InitAccess ==
    /\ pc = "idle"
    /\ clock = 0
    /\ inp = NoValue
    /\ out = NoValue
    /\ CacheIdle
    /\ AutoIdle

\* what the upstream does with the requests of one operation, as far as the
\* operation asks: a further request is made only after fetch raised, and
\* no more than FetchRetries are made
UpstreamRuns(f) ==
    {ups \in UNION {SeqsOf(Upstream(f), n) : n \in 1..FetchRetries} :
        /\ \A i \in 1..(Len(ups) - 1) : fetch(ups[i]).kind = "raise"
        /\ Len(ups) < FetchRetries => fetch(ups[Len(ups)]).kind = "ok"}

AccessCall(f, arg) ==
    \E ups \in UpstreamRuns(f) :
        LET a == Access(f, cache, clock, arg, ups)
        IN  /\ clock + a.elapsed <= MaxClock
            /\ cache' = a.caches
            /\ clock' = clock + a.elapsed
            /\ out' = [f |-> f, arg |-> arg, invoked |-> a.invoked,
                       result |-> a.result, log |-> a.log,
                       \* the requests that were made
                       ups |-> SubSeq(ups, 1, Calls(a.log))]
            /\ UNCHANGED <<pc, inp, hist, nfetch, autoVars>>

GetCoords == AccessCall("get_coords", PyStr("Sol"))

GetBuyers == AccessCall("get_buyers", PyInt(46))

GetHotspots == AccessCall("get_hotspots", PyStr("Platinum"))

NextAccess == GetCoords \/ GetBuyers \/ GetHotspots \/ Tick

SpecAccess == InitAccess /\ [][NextAccess]_vars

\* a request that the transport failed, or whose response does not parse
TransportFailure(u) == u.kind = "raise" \/ ~u.value.parses

\* a response that parses and holds no coordinates (get_coords) or nothing
\* at all (get_buyers)
LacksPayload(f, u) ==
    /\ u.kind = "ok"
    /\ u.value.parses
    /\ LET j == u.value.json
       IN  IF f = "get_coords"
           THEN /\ ~(j.t = "list" /\ j.items # <<>> /\ "coords" \in DOMAIN j.items[1])
                /\ ~(j.t = "dict" /\ "coords" \in DOMAIN j.d)
           ELSE (j.t = "list" /\ j.items = <<>>) \/ (j.t = "dict" /\ DOMAIN j.d = {})

\* C8: in each of get_coords, get_buyers and get_hotspots a request that the
\* transport failed or whose response does not parse is followed by another
\* request while attempts remain, and the operation fails only once the
\* attempts are used up.
C8_ParseFailureRetried ==
    (out # NoValue /\ out.invoked) =>
        \A i \in 1..Len(out.ups) :
            (TransportFailure(out.ups[i]) /\ i < FetchRetries) => Len(out.ups) > i

\* C9: in get_coords and get_buyers a response that parses and lacks the
\* payload ends the operation: no request and no wait follows it and
\* ValueError is raised; when it answers the first request, the operation
\* has made one request and has not waited.
C9_ResolutionNotRetried ==
    (out # NoValue /\ out.invoked /\ out.f \in {"get_coords", "get_buyers"}) =>
        \A i \in 1..Len(out.ups) :
            LacksPayload(out.f, out.ups[i]) =>
                /\ i = Len(out.ups)
                /\ Calls(out.log) = i
                /\ out.log[Len(out.log)] = [ev |-> "call", attempt |-> i - 1]
                /\ Slept(out.log) = DefaultBaseDelay * ((2 ^ (i - 1)) - 1)
                /\ out.result = Raise("ValueError")
                /\ i = 1 => (Len(out.log) = 1 /\ Slept(out.log) = 0)

\* C9 witness: get_coords answered at once by a dict without coordinates
C9_Witness ==
    /\ out # NoValue
    /\ out.f = "get_coords"
    /\ out.invoked
    /\ out.ups = <<Ok([parses |-> TRUE, json |-> JDict([name |-> "Nowhere"])])>>
    /\ out.result = Raise("ValueError")
    /\ Len(out.log) = 1

(***************************************************************************)
(* The route evaluator on its own: one call of evaluate_route on a ship,   *)
(* a site, a buyer and a mode drawn from small sets, under GameConfig().   *)
(***************************************************************************)
Ships ==
    {[name                  |-> "test ship",
      cargo_tons            |-> c,
      jump_range_ly         |-> SHIP.jump_range_ly,
      jump_time_min         |-> SHIP.jump_time_min,
      collector_controllers |-> k,
      num_lasers            |-> l] : c \in 1..MaxCargo, k \in {0, 2}, l \in {0, 2}}
    \cup {SHIP}

\* demands around a quarter of which the cargo of SHIP lies
Demands == (0..MaxDemand) \cup {383, 384, 385}

EvalBuyers ==
    {[system |-> "Sys B", station |-> "Port B", coords |-> PointB,
      price |-> p, demand |-> d, age_minutes |-> RInt(30)] :
        p \in {0, 250000}, d \in Demands}
    \cup {[system |-> "Sys B", station |-> "Port B", coords |-> Sol,
           price |-> 250000, age_minutes |-> RInt(30)],
          [system |-> "Sys B", station |-> "Port B",
           price |-> 250000, demand |-> 200, age_minutes |-> RInt(30)]}

EvalSites == {SiteA, [name |-> "Site C"]}

InitEval ==
    /\ pc = "ready"
    /\ clock = 0
    /\ inp \in [ref_coords  : {Sol},
                mine        : EvalSites,
                buyer       : EvalBuyers,
                ship        : Ships,
                mining_mode : MiningModes \cup {"other"}]
    /\ out = NoValue
    /\ CacheIdle
    /\ AutoIdle

EvalRun ==
    /\ pc = "ready"
    /\ out' = evaluate_route(inp.ref_coords, inp.mine, inp.buyer, GameConfig,
                             inp.ship, inp.mining_mode)
    /\ pc' = "done"
    /\ UNCHANGED <<clock, inp, cacheVars, autoVars>>

NextEval == EvalRun

SpecEval == InitEval /\ [][NextEval]_vars

\* the call returned a route
Evaluated == pc = "done" /\ out.kind = "ok" /\ out.value # EmptyResult

\* C10: for demand >= 0 and cargo_tons > 0 the bulk-sale tax factor is 1 when
\* demand is 0, 1 when a quarter of demand is at least cargo_tons, and
\* (demand * 0.25) / cargo_tons otherwise; for positive demand it is in (0, 1].
C10_TaxFactor ==
    Evaluated =>
        LET d == Get(inp.buyer, "demand", 0)
            c == inp.ship.cargo_tons
            t == out.value.raw_tax
        IN  /\ t.d > 0
            /\ d = 0 => t.n = t.d
            /\ (d > 0 /\ d >= 4 * c) => t.n = t.d
            /\ (d > 0 /\ d < 4 * c) => t.n * (4 * c) = d * t.d
            /\ d > 0 => (0 < t.n /\ t.n <= t.d)

\* C10 witness: SHIP with 96 t sells into a demand of 383, the factor is 383/384
C10_Witness ==
    /\ Evaluated
    /\ inp.ship = SHIP
    /\ Get(inp.buyer, "demand", 0) = 383
    /\ out.value.raw_tax = [n |-> 383, d |-> 384]

(***************************************************************************)
(* The optimizer, auto_calc_mode, lines 303-411.  The console is left out: *)
(* the system entered is "Sol", the mode entered is drawn from             *)
(* ModeChoices, what is printed is not modelled.                           *)
(***************************************************************************)
\* lines 293-301
LASER_MINING_COMMODITIES ==
    << <<"Platinum", 46>>, <<"Osmium", 97>>, <<"Painite", 83>>, <<"LTD", 276>>,
       <<"Rhodplumsite", 343>>, <<"Serendibite", 344>>, <<"Monazite", 345>> >>

\* how many commodities of the list a run of the model goes through
MaxCommodities == 2

\* the leading entries of the list; the loop treats every entry alike
Commodities == SubSeq(LASER_MINING_COMMODITIES, 1, MaxCommodities)

\* a slip: the threshold taken in seconds
MaxAgeAsSeconds == 12 * 60 * 60

\* line 357
MAX_AGE_MINUTES == 12 * 60

\* line 358
MIN_PRICE == 100000

\* line 396: all_routes[:5]
TopK == 5

\* lines 339-341: the stripped input, "2" when it is empty
mode_map(mode_choice) ==
    LET choice == IF mode_choice = "" THEN "2" ELSE mode_choice
    IN  IF choice = "1" THEN "mapped"
        ELSE IF choice = "2" THEN "unmapped"
        ELSE IF choice = "3" THEN "beginner"
        ELSE "unmapped"

\* a slip: a failed resolution falls back to the origin
resolveWithDefault(r) ==
    IF r.kind = "raise" THEN [pc |-> "mode", ref_coords |-> Sol]
    ELSE [pc |-> "mode", ref_coords |-> r.value]

\* lines 316-321: r is what get_coords(system) returned or raised
resolve(r) ==
    IF r.kind = "raise" THEN [pc |-> "aborted", ref_coords |-> NoValue]
    ELSE [pc |-> "mode", ref_coords |-> r.value]

\* the exceptions the calls of the model raise: all derive from Exception
Exceptions ==
    {"Timeout", "ConnectionError", "ValueError", "KeyError", "TypeError",
     "AttributeError", "ZeroDivisionError", "RuntimeError"}

\* a slip: only the failures of the fetches are caught
CaughtFetchOnly(exc) == exc \in {"Timeout", "ConnectionError", "ValueError"}

\* line 387: except Exception
Caught(exc) == exc \in Exceptions

\* line 371: b["age_minutes"] = age_min
WithAge(b, age_min) ==
    [k \in (DOMAIN b) \cup {"age_minutes"} |->
        IF k = "age_minutes" THEN age_min ELSE b[k]]

RECURSIVE filter_loop(_, _, _)
\* lines 368-373.  buyers are the entries of the list, the first i - 1 of
\* them gone through; an entry that is null has no get().  The entries are
\* changed in place, so the result carries the list as it is left.
filter_loop(buyers, i, filtered_buyers) ==
    IF i > Len(buyers)
    THEN [kind |-> "ok", buyers |-> buyers, filtered_buyers |-> filtered_buyers]
    ELSE IF buyers[i] = PyNone
    THEN [kind |-> "raise", exc |-> "AttributeError", buyers |-> buyers,
          filtered_buyers |-> filtered_buyers]
    ELSE LET age_min == RNorm(Get(buyers[i], "ago_sec", 999999), 60)
             b       == WithAge(buyers[i], age_min)
             keep    == /\ RLe(age_min, RInt(MAX_AGE_MINUTES))
                        /\ Get(b, "price", 0) >= MIN_PRICE
         IN  filter_loop([buyers EXCEPT ![i] = b], i + 1,
                         IF keep THEN Append(filtered_buyers, b)
                         ELSE filtered_buyers)

\* line 379: itertools.product(hotspots, filtered_buyers), in its order
product(hotspots, filtered_buyers) ==
    [k \in 1..(Len(hotspots) * Len(filtered_buyers)) |->
        <<hotspots[((k - 1) \div Len(filtered_buyers)) + 1],
          filtered_buyers[((k - 1) % Len(filtered_buyers)) + 1]>>]

\* a slip: the result appended whatever it is
NonEmptyAlways(r) == TRUE

\* line 381: if r
NonEmpty(r) == r # EmptyResult

RECURSIVE pair_loop(_, _, _, _, _, _)
\* lines 379-383.  routes is all_routes, the first i - 1 pairs gone through.
pair_loop(pairs, i, ref, mode, name, routes) ==
    IF i > Len(pairs)
    THEN [kind |-> "ok", routes |-> routes, evaluated |-> Len(pairs)]
    ELSE LET r == evaluate_route(ref, pairs[i][1], pairs[i][2], GameConfig, SHIP, mode)
         IN  IF r.kind = "raise"
             THEN [kind |-> "raise", exc |-> r.exc, routes |-> routes,
                   evaluated |-> i]
             ELSE pair_loop(pairs, i + 1, ref, mode, name,
                            IF NonEmpty(r.value)
                            THEN Append(routes, [r.value EXCEPT !.commodity = name])
                            ELSE routes)

\* what the trace keeps of one pass of the loop
Entry(name, outcome, exc, hotspots, buyers, filtered, evaluated, added) ==
    [name      |-> name,        \* the commodity
     outcome   |-> outcome,     \* "no hotspots", "no buyers", "error" or "done"
     exc       |-> exc,         \* the exception of an "error"
     hotspots  |-> hotspots,    \* sites returned, -1 before get_hotspots returned
     buyers    |-> buyers,      \* buyers returned, -1 before get_buyers returned
     filtered  |-> filtered,    \* buyers kept
     evaluated |-> evaluated,   \* calls of evaluate_route
     added     |-> added]       \* routes appended to all_routes

\* what one pass of the loop leaves: the caches, the clock, all_routes and
\* the trace entry
Pass(caches, now, routes, entry) ==
    [caches |-> caches, clock |-> now, routes |-> routes, entry |-> entry]

\* lines 379-385: p is what the loop over the pairs did
after_pairs(name, caches, now, routes, hotspots, buyers, filtered_buyers, p) ==
    Pass(caches, now, p.routes,
         Entry(name,
               IF p.kind = "raise" THEN "error" ELSE "done",
               IF p.kind = "raise" THEN p.exc ELSE "",
               Len(hotspots), Len(buyers), Len(filtered_buyers), p.evaluated,
               Len(p.routes) - Len(routes)))

\* lines 375-385: f is what the filter loop did, caches holds the buyer list
\* as the loop left it
after_filter(name, caches, now, ref, mode, routes, hotspots, buyers, f) ==
    IF f.kind = "raise"
    THEN Pass(caches, now, routes,
              Entry(name, "error", f.exc, Len(hotspots), Len(buyers),
                    Len(f.filtered_buyers), 0, 0))
    ELSE IF f.filtered_buyers = <<>>
    THEN Pass(caches, now, routes,
              Entry(name, "no buyers", "", Len(hotspots), Len(buyers), 0, 0, 0))
    ELSE after_pairs(name, caches, now, routes, hotspots, buyers,
                     f.filtered_buyers,
                     pair_loop(product(hotspots, f.filtered_buyers), 1,
                               ref, mode, name, routes))

\* the list in the cache of get_buyers is the list the filter loop changes
Aliased(caches, cid, buyers) ==
    [caches EXCEPT
        !["get_buyers"][Key([args |-> <<PyInt(cid)>>, kwargs |-> <<>>])].result =
            JList(buyers)]

\* lines 367-385: b is what get_buyers(cid) did, now the clock when it is done
after_buyers(name, cid, now, ref, mode, routes, hotspots, b) ==
    IF b.result.kind = "raise"
    THEN Pass(b.caches, now, routes,
              Entry(name, "error", b.result.exc, Len(hotspots), -1, 0, 0, 0))
    ELSE after_filter(name,
                      Aliased(b.caches, cid,
                              filter_loop(b.result.value.items, 1, <<>>).buyers),
                      now, ref, mode, routes, hotspots, b.result.value.items,
                      filter_loop(b.result.value.items, 1, <<>>))

\* lines 362-385: h is what get_hotspots(name) did, now the clock when it is
\* done
after_hotspots(name, cid, now, ref, mode, routes, upsB, h) ==
    IF h.result.kind = "raise"
    THEN Pass(h.caches, now, routes,
              Entry(name, "error", h.result.exc, -1, -1, 0, 0, 0))
    ELSE IF ~Truthy(h.result.value)
    THEN Pass(h.caches, now, routes,
              Entry(name, "no hotspots", "", 0, -1, 0, 0, 0))
    ELSE after_buyers(name, cid,
                      now + Access("get_buyers", h.caches, now, PyInt(cid), upsB).elapsed,
                      ref, mode, routes, h.result.value.items,
                      Access("get_buyers", h.caches, now, PyInt(cid), upsB))

\* lines 361-389, one pass of the loop for (name, cid).  upsH and upsB are
\* what the upstream does with the requests of get_hotspots and of
\* get_buyers.  The hotspot and buyer payloads of the model are JSON lists.
process_commodity(name, cid, caches, now, ref, mode, routes, upsH, upsB) ==
    after_hotspots(name, cid,
                   now + Access("get_hotspots", caches, now, PyStr(name), upsH).elapsed,
                   ref, mode, routes, upsB,
                   Access("get_hotspots", caches, now, PyStr(name), upsH))

\* a slip: reverse=True left out
SortKeyAscending(r) == 0 - r.crph_full

\* line 395: key=lambda r: r["crph_full"]; the order is that of the key
\* from the greatest down
SortKey(r) == r.crph_full

\* where list.sort with reverse=True puts routes[i]: behind the routes of a
\* greater key and behind the routes of the same key collected before it
\* (the sort is stable)
Rank(routes, i) ==
    Cardinality({j \in 1..Len(routes) : SortKey(routes[j]) > SortKey(routes[i])})
    + Cardinality({j \in 1..i : SortKey(routes[j]) = SortKey(routes[i])})

\* line 395: all_routes.sort(key=..., reverse=True)
sort(routes) ==
    [k \in 1..Len(routes) |->
        routes[CHOOSE i \in 1..Len(routes) : Rank(routes, i) = k]]

\* line 396: routes[:TopK]
Slice(routes) ==
    SubSeq(routes, 1, IF Len(routes) < TopK THEN Len(routes) ELSE TopK)

(***************************************************************************)
(* One run of auto_calc_mode, a step per stage: the resolution of the      *)
(* reference coordinates, the mode selection, one pass of the loop per     *)
(* commodity, the ranking.                                                 *)
(***************************************************************************)
SiteB == [name |-> "Site B", coords |-> PointB]

SiteNoCoords == [name |-> "Site C"]

SiteNoName == [coords |-> PointA]

BuyerC == [system |-> "Sys A", station |-> "Port C", coords |-> PointA,
           price |-> 100053, demand |-> 0, ago_sec |-> 600]

BuyerD == [system |-> "Sol", station |-> "Port D", coords |-> Sol,
           price |-> 104954, demand |-> 1000, ago_sec |-> 7200, pad |-> "M"]

\* a minute too old
BuyerOld == [system |-> "Sys B", station |-> "Port O", coords |-> PointB,
             price |-> 250000, demand |-> 200, ago_sec |-> 43260]

\* a credit too cheap
BuyerCheap == [system |-> "Sys B", station |-> "Port P", coords |-> PointB,
               price |-> 99999, demand |-> 200, ago_sec |-> 600]

BuyerNoAge == [system |-> "Sys B", station |-> "Port N", coords |-> PointB,
               price |-> 250000, demand |-> 200]

\* as old and as cheap as the filter lets pass
BuyerEdge == [system |-> "Sys B", station |-> "Port E", coords |-> PointB,
              price |-> 100000, demand |-> 100, ago_sec |-> 43200]

BuyerNoCoords == [system |-> "Sys B", station |-> "Port X",
                  price |-> 250000, demand |-> 200, ago_sec |-> 600]

Timeout == Raise("Timeout")

Json(j) == Ok([parses |-> TRUE, json |-> j])

\* what the upstream may do with the requests of get_coords("Sol")
CoordRuns ==
    {<<Timeout, Timeout, Timeout>>,
     <<Json(JDict([name |-> "Nowhere"]))>>,
     <<Timeout, Json(JList(<<[name |-> "Sol", coords |-> Sol]>>))>>}

\* what the upstream may do with the requests of get_hotspots(name)
HotspotRuns ==
    {<<Json(JList(<<>>))>>,
     <<Timeout, Timeout, Timeout>>,
     <<Timeout, Json(JList(<<SiteA, SiteB>>))>>,
     <<Json(JList(<<SiteA, SiteNoCoords, SiteNoName>>))>>}

\* what the upstream may do with the requests of get_buyers(cid)
BuyerRuns ==
    {<<Json(JList(<<>>))>>,
     <<Timeout, Timeout, Timeout>>,
     <<Json(JList(<<BuyerB, BuyerC, BuyerD>>))>>,
     <<Json(JList(<<BuyerOld, BuyerCheap, BuyerNoAge>>))>>,
     <<Json(JList(<<BuyerEdge, BuyerNoCoords>>))>>,
     <<Json(JList(<<BuyerB, PyNone>>))>>}

\* what is typed at line 339, stripped
ModeChoices == {"", "1", "2", "3", "7"}

InitAuto ==
    /\ pc = "start"
    /\ clock = 0
    /\ inp = NoValue
    /\ out = NoValue
    /\ CacheIdle
    /\ AutoIdle

\* lines 314-321
AutoResolve ==
    /\ pc = "start"
    /\ \E ups \in CoordRuns :
        LET a == Access("get_coords", cache, clock, PyStr("Sol"), ups)
        IN  /\ cache' = a.caches
            /\ clock' = clock + a.elapsed
            /\ pc' = resolve(a.result).pc
            /\ ref_coords' = resolve(a.result).ref_coords
            /\ out' = [coords |-> a.result, log |-> a.log, collected |-> <<>>]
    /\ UNCHANGED <<inp, hist, nfetch, idx, mining_mode, all_routes, top, trace>>

\* lines 339-344
AutoSelectMode ==
    /\ pc = "mode"
    /\ \E mode_choice \in ModeChoices :
        /\ inp' = [system |-> "Sol", mode_choice |-> mode_choice]
        /\ mining_mode' = mode_map(mode_choice)
    /\ all_routes' = <<>>
    /\ idx' = 1
    /\ pc' = "loop"
    /\ UNCHANGED <<clock, out, cacheVars, ref_coords, top, trace>>

\* lines 383-389: p is what the pass of the loop has done
EndOfPass(p) ==
    /\ cache' = p.caches
    /\ clock' = p.clock
    /\ all_routes' = p.routes
    /\ trace' = Append(trace, p.entry)
    /\ IF p.entry.outcome = "error" /\ ~Caught(p.entry.exc)
       THEN pc' = "crashed" /\ idx' = idx
       ELSE pc' = "loop" /\ idx' = idx + 1

\* lines 360-389, one pass of the loop
AutoCommodity ==
    /\ pc = "loop"
    /\ idx <= Len(Commodities)
    /\ \E upsH \in HotspotRuns, upsB \in BuyerRuns :
        EndOfPass(process_commodity(Commodities[idx][1], Commodities[idx][2],
                                    cache, clock, ref_coords, mining_mode,
                                    all_routes, upsH, upsB))
    /\ UNCHANGED <<inp, out, hist, nfetch, ref_coords, mining_mode, top>>

\* lines 391-396
AutoFinish ==
    /\ pc = "loop"
    /\ idx > Len(Commodities)
    /\ IF all_routes = <<>>
       THEN /\ pc' = "noroutes"
            /\ UNCHANGED <<all_routes, top>>
       ELSE /\ pc' = "ranked"
            /\ all_routes' = sort(all_routes)
            /\ top' = Slice(all_routes')
    /\ out' = [out EXCEPT !.collected = all_routes]
    /\ UNCHANGED <<clock, inp, cacheVars, idx, ref_coords, mining_mode, trace>>

NextAuto == AutoResolve \/ AutoSelectMode \/ AutoCommodity \/ AutoFinish

SpecAuto == InitAuto /\ [][NextAuto]_vars


\* how often r occurs in routes
Count(routes, r) == Cardinality({i \in 1..Len(routes) : routes[i] = r})

\* C4: the ranked output holds at most 5 routes, all of them collected
\* routes, in descending order of yield per hour (crph_full), and no
\* collected route left out of it has a greater yield per hour than a route
\* in it.
C4_TopSelection ==
    pc = "ranked" =>
        /\ Len(top) <= 5
        /\ \A i, j \in 1..Len(top) :
            i < j => top[i].crph_full >= top[j].crph_full
        /\ \A i \in 1..Len(top) :
            Count(top, top[i]) <= Count(out.collected, top[i])
        /\ \A i \in 1..Len(out.collected) :
            Count(top, out.collected[i]) < Count(out.collected, out.collected[i])
                => \A j \in 1..Len(top) :
                       out.collected[i].crph_full <= top[j].crph_full

\* C4 witness: more than five routes were collected, not in ranked order, and
\* one with a smaller yield than the fifth of the output is left out
C4_Witness ==
    /\ pc = "ranked"
    /\ Len(out.collected) > 5
    /\ Len(top) = 5
    /\ out.collected # all_routes
    /\ \E i \in 1..Len(out.collected) :
        /\ Count(top, out.collected[i]) = 0
        /\ out.collected[i].crph_full < top[5].crph_full

\* C5: once the reference coordinates are resolved the run never ends with
\* an unhandled failure and the commodities are gone through in list order
\* whatever happened to the earlier ones: each pass fetches the hotspots of
\* its commodity, fetches the buyers when there are hotspots, and evaluates
\* every pair when buyers pass the filter, up to a failure of its own; the
\* ranking or the no-routes report comes after the last commodity.
C5_EveryCommodityProcessed ==
    /\ pc # "crashed"
    /\ pc \in {"loop", "ranked", "noroutes"} =>
        /\ Len(trace) = idx - 1
        /\ \A i \in 1..Len(trace) :
            LET e    == trace[i]
                keyH == Key([args |-> <<PyStr(LASER_MINING_COMMODITIES[i][1])>>,
                             kwargs |-> <<>>])
                keyB == Key([args |-> <<PyInt(LASER_MINING_COMMODITIES[i][2])>>,
                             kwargs |-> <<>>])
            IN  /\ e.name = LASER_MINING_COMMODITIES[i][1]
                /\ e.outcome \in {"no hotspots", "no buyers", "error", "done"}
                /\ e.outcome # "error" => keyH \in DOMAIN cache["get_hotspots"]
                /\ e.outcome \in {"no buyers", "done"} =>
                       keyB \in DOMAIN cache["get_buyers"]
                /\ e.outcome = "no hotspots" => e.hotspots = 0
                /\ e.outcome = "no buyers" => (e.hotspots > 0 /\ e.filtered = 0)
                /\ e.outcome = "done" =>
                       (e.filtered > 0 /\ e.evaluated = e.hotspots * e.filtered)
    /\ pc \in {"ranked", "noroutes"} => Len(trace) = Len(Commodities)

\* C5 witness: the first commodity failed in the evaluation of a pair, the
\* second was fetched and evaluated and gave routes, the run got to its
\* ranking
C5_Witness ==
    /\ pc = "ranked"
    /\ trace[1].outcome = "error"
    /\ trace[1].exc = "KeyError"
    /\ trace[2].outcome = "done"
    /\ trace[2].added > 0

\* C6: the collected route list holds no route of a commodity whose
\* processing raised a failure, be it in the hotspot fetch, the buyer fetch
\* or the evaluation of one of its pairs.
C6_FailedCommoditySkipped ==
    \A i \in 1..Len(trace) :
        trace[i].outcome = "error" =>
            \A j \in 1..Len(all_routes) : all_routes[j].commodity # trace[i].name

\* C7: a run ends (has no step left) only where get_coords has failed, at
\* the ranking or at the no-routes report, never with an unhandled failure
\* in between; it ends at the resolution exactly when get_coords failed, and
\* then no hotspot or buyer fetch was made and no route was produced.
C7_OnlyResolutionFatal ==
    /\ ~(ENABLED NextAuto) => pc \in {"aborted", "ranked", "noroutes"}
    /\ pc = "aborted" <=> (pc # "start" /\ out.coords.kind = "raise")
    /\ pc = "aborted" =>
        /\ trace = <<>>
        /\ cache["get_hotspots"] = EmptyDict
        /\ cache["get_buyers"] = EmptyDict
        /\ all_routes = <<>>
        /\ top = <<>>

\* C7 witness: the provider answered get_coords with a record without
\* coordinates and the run has ended
C7_Witness ==
    /\ pc = "aborted"
    /\ out.coords = Raise("ValueError")
    /\ ref_coords = NoValue
    /\ trace = <<>>

\* C11: a call of evaluate_route on a site and a buyer that both carry
\* coordinates, for any ship with cargo > 0 and collector controllers and
\* lasers >= 0 and any mode, returns a route and raises no division error;
\* the yield per hour of the route is 0 whenever its cycle time is 0.
C11_NoDivisionError ==
    (/\ pc = "done"
     /\ "coords" \in DOMAIN inp.mine
     /\ "coords" \in DOMAIN inp.buyer) =>
        /\ out # Raise("ZeroDivisionError")
        /\ out.kind = "ok"
        /\ out.value # EmptyResult
        /\ out.value.raw_cycle.n = 0 => out.value.crph_full = 0

\* the key of f(arg) in the cache of f
KeyOf(arg) == Key([args |-> <<arg>>, kwargs |-> <<>>])

\* the sites the cache holds for the i-th commodity
SitesOf(i) ==
    cache["get_hotspots"][KeyOf(PyStr(LASER_MINING_COMMODITIES[i][1]))].result.items

\* the buyers the cache holds for the i-th commodity, as the filter loop left
\* them
BuyersOf(i) ==
    cache["get_buyers"][KeyOf(PyInt(LASER_MINING_COMMODITIES[i][2]))].result.items

\* the buyer passes the filter of lines 370-372
Passes(b) ==
    /\ "age_minutes" \in DOMAIN b
    /\ RLe(b.age_minutes, RInt(720))
    /\ Get(b, "price", 0) >= 100000

\* the site or buyer record carries coordinates
HasCoords(rec) == "coords" \in DOMAIN rec

\* the routes held anywhere: collected, ranked, as collected before the sort
RoutesHeld ==
    {all_routes[j] : j \in 1..Len(all_routes)}
    \cup {top[j] : j \in 1..Len(top)}
    \cup (IF pc \in {"ranked", "noroutes"}
          THEN {out.collected[j] : j \in 1..Len(out.collected)} ELSE {})

\* C12: every route collected or ranked is a route record whose site and
\* buyer both carry coordinates; a commodity whose pass went through has
\* had every pair of a site and a filtered buyer evaluated and has added one
\* route per pair in which both carry coordinates, the other pairs being
\* dropped without a failure.
C12_CoordinatesRequired ==
    /\ \A r \in RoutesHeld :
        /\ r # EmptyResult
        /\ HasCoords(r.raw_mine)
        /\ HasCoords(r.raw_buyer)
    /\ \A i \in 1..Len(trace) :
        trace[i].outcome = "done" =>
            LET sites  == SitesOf(i)
                buyers == BuyersOf(i)
                ns == Cardinality({k \in 1..Len(sites) : HasCoords(sites[k])})
                nb == Cardinality({k \in 1..Len(buyers) :
                                      Passes(buyers[k]) /\ HasCoords(buyers[k])})
            IN  /\ trace[i].evaluated = trace[i].hotspots * trace[i].filtered
                /\ trace[i].added = ns * nb

\* C12 witness: a pass that went through although the buyer list held a
\* filtered buyer without coordinates: two pairs evaluated to nothing, two
\* routes added
C12_Witness ==
    /\ Len(trace) >= 1
    /\ trace[1].outcome = "done"
    /\ trace[1].evaluated = 4
    /\ trace[1].added = 2
    /\ \E k \in 1..Len(BuyersOf(1)) :
        Passes(BuyersOf(1)[k]) /\ ~HasCoords(BuyersOf(1)[k])

\* C13: every route collected or ranked was evaluated against a buyer record
\* that carries its age (ago_sec), is at most 720 minutes old and pays at
\* least 100000 a ton; a commodity none of whose buyers passed the filter
\* has added no route and has none in the collected list.
C13_BuyerFilter ==
    /\ \A r \in RoutesHeld :
        /\ "ago_sec" \in DOMAIN r.raw_buyer
        /\ r.raw_buyer.age_minutes = RNorm(r.raw_buyer.ago_sec, 60)
        /\ r.raw_buyer.ago_sec <= 720 * 60
        /\ r.price >= 100000
        /\ r.price = r.raw_buyer.price
    /\ \A i \in 1..Len(trace) :
        (trace[i].buyers >= 0 /\ trace[i].filtered = 0) =>
            /\ trace[i].added = 0
            /\ \A r \in RoutesHeld : r.commodity # trace[i].name

\* C13 witness: the first commodity had three buyers, one too old, one too
\* cheap, one without age, and gave nothing; the second was sold to a buyer
\* exactly 720 minutes old paying exactly 100000, and that route is ranked
C13_Witness ==
    /\ pc = "ranked"
    /\ trace[1].outcome = "no buyers"
    /\ trace[1].buyers = 3
    /\ \E k \in 1..3 : "ago_sec" \notin DOMAIN BuyersOf(1)[k]
    /\ \E j \in 1..Len(top) :
        /\ top[j].raw_buyer.ago_sec = 43200
        /\ top[j].price = 100000

\* C14: a call with the same arguments made less than ttl_seconds after the
\* result of a fetch was stored (the moment the fetching call returned,
\* however long the fetch took) runs nothing and returns the stored value.
C14_WindowFromInsertion ==
    [][out' # out =>
         LET h == hist[out'.form]
         IN  (h # NoValue /\ clock - h.storedAt < inp.ttl_seconds) =>
                /\ ~out'.invoked
                /\ nfetch' = nfetch
                /\ out'.result = Ok(h.value)
    ]_vars

\* the parameters of the decorated function of SpecCache
Params == <<"x", "y">>

\* the value a call gives to each parameter: positional values in order, then
\* the keyword pairs by name
Bound(call) ==
    [p \in 1..Len(Params) |->
        IF p <= Len(call.args) THEN call.args[p]
        ELSE LET k == CHOOSE k \in 1..Len(call.kwargs) : call.kwargs[k][1] = Params[p]
             IN  call.kwargs[k][2]]

\* C15: calls with equal arguments, keyword arguments in another order
\* included, find the same cache entry: once one of them has stored its
\* result the entry is there for the other; calls with different arguments
\* have different keys.
C15_OneEntryPerArguments ==
    \A i, j \in Forms :
        LET ki == Key(CallForms[i])
            kj == Key(CallForms[j])
        IN  IF Bound(CallForms[i]) = Bound(CallForms[j])
            THEN ki \in DOMAIN cache.func =>
                    (kj \in DOMAIN cache.func /\ cache.func[kj] = cache.func[ki])
            ELSE ki # kj

\* C16: in the ranked output a route stands before every collected route
\* of a strictly smaller yield per hour as computed, before rounding: before
\* those in the output, and selected in preference to those left out.
C16_RankedByComputedYield ==
    pc = "ranked" =>
        \A i \in 1..Len(top) :
            \A j \in (i + 1)..Len(all_routes) :
                ~BigLt(all_routes[i].raw_crph, all_routes[j].raw_crph)

\* C17: the console selection 1, 2, 3 gives mapped, unmapped, beginner and a
\* blank or any other selection gives unmapped; every route of the run
\* records that mode and the one multiplier of that mode (mapped, beginner
\* or unmapped multiplier of the configuration), and its realistic mining
\* time is its theoretical extraction time times that multiplier.
C17_OneMultiplier ==
    pc \in {"loop", "ranked", "noroutes"} =>
        /\ inp.mode_choice = "1" => mining_mode = "mapped"
        /\ inp.mode_choice = "2" => mining_mode = "unmapped"
        /\ inp.mode_choice = "3" => mining_mode = "beginner"
        /\ inp.mode_choice \notin {"1", "2", "3"} => mining_mode = "unmapped"
        /\ \A r \in RoutesHeld :
            /\ r.mining_mode = mining_mode
            /\ r.mining_mode = "mapped" =>
                   r.time_multiplier = GameConfig.time_multiplier_mapped
            /\ r.mining_mode = "beginner" =>
                   r.time_multiplier = GameConfig.time_multiplier_beginner
            /\ r.mining_mode = "unmapped" =>
                   r.time_multiplier = GameConfig.time_multiplier_unmapped
            /\ r.raw_realistic = RMul(r.raw_extraction, r.time_multiplier)

\* C17 witness: selection 3, a ranked route with the beginner multiplier 5
\* and a realistic time five times its extraction time
C17_Witness ==
    /\ pc = "ranked"
    /\ inp.mode_choice = "3"
    /\ top[1].mining_mode = "beginner"
    /\ top[1].time_multiplier = RInt(5)
    /\ top[1].raw_realistic = RMul(RInt(5), top[1].raw_extraction)
    /\ top[1].raw_extraction.n > 0

(***************************************************************************)
(* travel_time_minutes on its own: two distances around the multiples of   *)
(* the jump range, for ships of two jump ranges and two jump times.        *)
(***************************************************************************)
\* most jumps' worth of distance handed to travel_time_minutes
MaxJumps == 3

TravelShips ==
    {[SHIP EXCEPT !.jump_range_ly = r, !.jump_time_min = t] :
        r \in {SHIP.jump_range_ly, RInt(10)}, t \in {SHIP.jump_time_min, RInt(0)}}

\* the multiples of the jump range, a hundredth below and a hundredth above
\* each, and a negative distance
Distances(jump_range_ly) ==
    {RInt(-1)}
    \cup {RAdd(RMul(RInt(n), jump_range_ly), e) :
            n \in 0..MaxJumps, e \in {RNorm(-1, 100), RInt(0), RNorm(1, 100)}}

InitTravel ==
    /\ pc = "ready"
    /\ clock = 0
    /\ \E ship \in TravelShips :
        \E d1 \in Distances(ship.jump_range_ly), d2 \in Distances(ship.jump_range_ly) :
            inp = [ship |-> ship, d1 |-> d1, d2 |-> d2]
    /\ out = NoValue
    /\ CacheIdle
    /\ AutoIdle

TravelRun ==
    /\ pc = "ready"
    /\ out' = [t1 |-> travel_time_minutes(inp.d1, inp.ship),
               t2 |-> travel_time_minutes(inp.d2, inp.ship)]
    /\ pc' = "done"
    /\ UNCHANGED <<clock, inp, cacheVars, autoVars>>

NextTravel == TravelRun

SpecTravel == InitTravel /\ [][NextTravel]_vars

\* the n with d in ((n-1) * jump_range, n * jump_range], 0 for d <= 0
Interval(d, jump_range_ly) ==
    CHOOSE n \in 0..(MaxJumps + 1) :
        IF d.n <= 0 THEN n = 0
        ELSE /\ RLt(RMul(RInt(n - 1), jump_range_ly), d)
             /\ RLe(d, RMul(RInt(n), jump_range_ly))

\* C18: the travel time is 5 for a distance d <= 0 and n * jump_time + 5
\* for d in ((n-1) * jump_range, n * jump_range], n >= 1, which is
\* ceiling(d / jump_range) * jump_time + 5; it does not decrease with d, is
\* the same for two distances of one interval and greater by jump_time for
\* a distance of the next interval.
C18_TravelSteps ==
    pc = "done" =>
        LET R  == inp.ship.jump_range_ly
            T  == inp.ship.jump_time_min
            n1 == Interval(inp.d1, R)
            n2 == Interval(inp.d2, R)
        IN  /\ out.t1 = RAdd(RMul(RInt(n1), T), RInt(5))
            /\ out.t2 = RAdd(RMul(RInt(n2), T), RInt(5))
            /\ inp.d1.n <= 0 => out.t1 = RInt(5)
            /\ RLe(inp.d1, inp.d2) => RLe(out.t1, out.t2)
            /\ n1 = n2 => out.t1 = out.t2
            /\ n2 = n1 + 1 => out.t2 = RAdd(out.t1, T)

\* C18 witness: the ship of the program, a distance of exactly two jump
\* ranges (2 jumps, 8 minutes) and one a hundredth more (3 jumps, 9.5)
C18_Witness ==
    /\ pc = "done"
    /\ inp.ship = SHIP
    /\ inp.d1 = RNorm(5374, 100)
    /\ inp.d2 = RNorm(5375, 100)
    /\ out.t1 = RInt(8)
    /\ out.t2 = RNorm(19, 2)

\* revenue_full of a route, line 254
Revenue(r, ship) == RMul(RMul(RInt(ship.cargo_tons), RInt(r.price)), r.raw_tax)

\* C19: the revenue, the profit and the yield per hour of a route sold to a
\* buyer of demand 0 are not greater than those of the same route (same
\* site, ship, mode, price) sold to that buyer with any positive demand.
C19_ZeroDemandPessimistic ==
    (Evaluated /\ "demand" \in DOMAIN inp.buyer /\ inp.buyer.demand = 0) =>
        \A d \in Demands \ {0} :
            LET o == evaluate_route(inp.ref_coords, inp.mine,
                                    [inp.buyer EXCEPT !.demand = d],
                                    GameConfig, inp.ship, inp.mining_mode)
            IN  /\ o.kind = "ok"
                /\ RLe(Revenue(out.value, inp.ship), Revenue(o.value, inp.ship))
                /\ RLe(out.value.raw_profit, o.value.raw_profit)
                /\ ~BigLt(o.value.raw_crph, out.value.raw_crph)

\* C20: a call whose fetch raises returns that failure and leaves the cache
\* as it was; the call with the same arguments that follows it runs the
\* fetch again; a call that ran the fetch and returns a value returns the
\* value of that run; and a call that returns a stored value returns the
\* value of an entry less than ttl_seconds old.
C20_FailureNotCached ==
    [][(out' # out \/ nfetch' # nfetch) =>
         LET key == Key(CallForms[out'.form])
         IN  /\ out'.result.kind = "raise" =>
                    (out'.invoked /\ cache' = cache /\ nfetch' = nfetch + 1)
             /\ (out # NoValue /\ out.result.kind = "raise" /\ out'.form = out.form) =>
                    (out'.invoked /\ nfetch' = nfetch + 1)
             /\ (out'.invoked /\ out'.result.kind = "ok") =>
                    \* the value is the one this run of the fetch returned
                    /\ out'.result.value = nfetch'
                    /\ nfetch' = nfetch + 1
                    /\ key \in DOMAIN cache'.func
                    /\ cache'.func[key].result = out'.result.value
             /\ ~out'.invoked =>
                    /\ key \in DOMAIN cache.func
                    /\ clock - cache.func[key].timestamp < inp.ttl_seconds
                    /\ clock - hist[out'.form].storedAt < inp.ttl_seconds
                    /\ out'.result = Ok(cache.func[key].result)
    ]_vars

\* C20 witness: the entry had expired, the fetch was run and raised, and the
\* expired entry is still what the cache holds
C20_Witness ==
    /\ out # NoValue
    /\ out.invoked
    /\ out.result.kind = "raise"
    /\ hist[out.form] # NoValue
    /\ Key(CallForms[out.form]) \in DOMAIN cache.func
    /\ cache.func[Key(CallForms[out.form])].result = hist[out.form].value
    /\ clock - cache.func[Key(CallForms[out.form])].timestamp >= inp.ttl_seconds

=============================================================================
